---- MODULE Spec2Model ----
(***************************************************************************)
(* Liveness assessment and face matching core of masternixe/ocdai:         *)
(* LivenessChecker (liveness_checker.py), FaceMatcher (face_matcher.py),   *)
(* the quality gate (utils.py) and the two callers that report a match     *)
(* decision (api.py match_faces, app.py Tab 3).                            *)
(*                                                                         *)
(* Number representation.  Python floats are modelled by exact fixed-point *)
(* integers:                                                               *)
(*   - eye aspect ratios in hundredths (0.25 is 25); the average of the    *)
(*     two eyes is kept doubled (avg_ear2 = left + right) so that no       *)
(*     halving is needed;                                                  *)
(*   - liveness cues (texture, colour variance, high frequency energy,     *)
(*     brightness, contrast) as whole numbers;                             *)
(*   - liveness scores multiplied by Unit, which makes the divisions by    *)
(*     BLINK_THRESHOLD, by 3 and the factor 33.3/1000 exact;               *)
(*   - match scores, distances and thresholds in thousandths (0.6 is 600); *)
(*   - the structural comparison works on the grey levels of a crop: the   *)
(*     histogram correlation and the SSIM map are computed from them, with *)
(*     the Gaussian window scaled down to (1, 2, 1)/4 on a row of pixels.  *)
(*                                                                         *)
(* Specifications: SpecBlinks (count_blinks frame by frame), Spec          *)
(* (check_liveness and its callers), SpecMatch (the matcher and its        *)
(* callers), SpecPure (pure functions on bounded inputs) and SpecShared    *)
(* (several sessions in flight, where the per-call variables hold one      *)
(* value per session and checker one instance per tracker).                *)
(***************************************************************************)
EXTENDS Integers, Sequences, FiniteSets, TLC

VARIABLES
    config,              \* Config attributes read by the matcher (env overridable)
    checker,             \* the LivenessChecker instance (its fields)
    pc,                  \* position of the running operation
    frames,              \* count_blinks: the frames argument
    idx,                 \* count_blinks: index of the next frame of the for loop
    blink_count,         \* count_blinks: local blink_count
    consecutive_closed,  \* count_blinks: local consecutive_closed
    call,                \* arguments of the running / last operation
    matcher,             \* the FaceMatcher instance used by the last match
    result,              \* value returned by the last core operation
    response             \* what the caller (API / UI) reports back

vars == <<config, checker, pc, frames, idx, blink_count, consecutive_closed,
          call, matcher, result, response>>

\* Python None where a string is expected; an absent optional number is <<>>
None == "None"
NoResult == [op |-> "none"]

\* an exception that leaves an operation instead of a return value
Raised(e) == [exception |-> e]
IsRaised(v) == "exception" \in DOMAIN v

(***************************************************************************)
(* Bounds and input sets                                                   *)
(***************************************************************************)
MaxFrames == 8

\* A frame as the detectors see it: whether dlib finds a face, the EAR of
\* each eye of the first face (hundredths) and the centre of its rectangle.
NoFaceFrame == [face |-> FALSE, left_ear |-> 0, right_ear |-> 0, cx |-> 0, cy |-> 0]
ClosedFrame == [face |-> TRUE, left_ear |-> 10, right_ear |-> 30, cx |-> 100, cy |-> 100]
EdgeFrame == [face |-> TRUE, left_ear |-> 10, right_ear |-> 40, cx |-> 100, cy |-> 100]

BlinkFrames == {ClosedFrame, EdgeFrame, NoFaceFrame}

SeqsUpTo(S, n) == UNION {[1..k -> S] : k \in 0..n}

\* frames whose face rectangle sits elsewhere (eyes open)
MovedFrame == [face |-> TRUE, left_ear |-> 30, right_ear |-> 32, cx |-> 130, cy |-> 100]
ShiftFrame == [face |-> TRUE, left_ear |-> 30, right_ear |-> 32, cx |-> 100, cy |-> 125]

\* Frame sequences handed to check_liveness are concatenations of at most
\* MaxSegs of these segments: a complete blink, a moved face, a face shifted
\* so that the variance is exactly 100 over five frames, a frame with no face.
MaxSegs == 5
Segments == {<<ClosedFrame, ClosedFrame, ClosedFrame, EdgeFrame>>,
             <<MovedFrame>>, <<ShiftFrame>>, <<NoFaceFrame>>}

RECURSIVE Flatten(_)
Flatten(ss) == IF ss = <<>> THEN <<>> ELSE Head(ss) \o Flatten(Tail(ss))

LiveFrameSeqs == {Flatten(ss) : ss \in SeqsUpTo(Segments, MaxSegs)}

\* an optional argument: Absent is Python's None, Some(v) a supplied value
Absent == <<>>
Some(v) == <<v>>

\* An image as the detectors and cv2 measure it: whether a face is found,
\* the variance of the Laplacian of its grey version, the variance of its
\* pixel values, the mean of the top decile of its spectrum, the mean and
\* the standard deviation of its grey version.
\* empty marks a pixel buffer without pixels (shape 0 x 0 x 3), on which
\* cv2.cvtColor and cv2.resize raise cv2.error.
EmptyImage == [face |-> FALSE, laplacian_var |-> 0, color_variance |-> 0,
               high_freq |-> 0, gray_mean |-> 0, gray_std |-> 0, empty |-> TRUE]

\* np.mean of an empty selection: the spectrum of an all-black image has no
\* entry above its 90th percentile, so its high-frequency score is nan
NaN == -1

\* images decoded from a camera capture or an upload: they have pixels; the
\* last two sets are the uniform grey images and the all-black ones
DecodedImages ==
    [face : BOOLEAN, laplacian_var : {50, 101}, color_variance : {100, 101, 3000},
     high_freq : {10, 11}, gray_mean : {50, 51}, gray_std : {30, 31}, empty : {FALSE}]
    \cup [face : BOOLEAN, laplacian_var : {0}, color_variance : {0},
          high_freq : {40000}, gray_mean : {128}, gray_std : {0}, empty : {FALSE}]
    \cup [face : BOOLEAN, laplacian_var : {0}, color_variance : {0},
          high_freq : {NaN}, gray_mean : {0}, gray_std : {0}, empty : {FALSE}]

LiveImages == DecodedImages \cup {EmptyImage}

\* The arguments of check_liveness(image, frames=None). Every image comes
\* without frames, with no frame and with one frame; the longer sequences come
\* with the images that differ in what the fusion reads, the passive cues.
FusionImages ==
    {image \in DecodedImages :
        image.face /\ image.gray_mean # 50 /\ image.gray_std # 30}
ShortFrameSeqs == {q \in LiveFrameSeqs : Len(q) <= 1}
FrameArgs(image) ==
    {Absent} \cup {Some(q) : q \in IF image \in FusionImages
                                    THEN LiveFrameSeqs ELSE ShortFrameSeqs}

\* A face crop as the matcher sees it: the embeddings face_recognition finds
\* in it (vectors of dimension 1, thousandths) and its pixels: the grey
\* levels of the crop after cv2.resize and cv2.cvtColor, here a row of 4.
Encodings == {<<>>, <<0>>, <<400>>, <<600>>, <<601>>, <<1500>>, <<0, 1500>>}
Pixels == {<<50, 0, 50, 200>>, <<200, 50, 50, 100>>,
           <<0, 100, 100, 0>>, <<200, 0, 100, 50>>}
EmptyCrop == [encodings |-> <<>>, pixels |-> <<>>, empty |-> TRUE]
\* crops read back with cv2.imread (None is rejected by the callers)
LoadedCrops == [encodings : Encodings, pixels : Pixels, empty : {FALSE}]
FaceCrops == LoadedCrops \cup {EmptyCrop}

\* thresholds a caller may supply (the slider of app.py moves in steps of 0.05)
SuppliedThresholds == {0, 50, 300, 600, 900}
Methods == {"dlib", "opencv", "deepface"}
ConfigValues == [FACE_MATCH_THRESHOLD : {600, 800}, FACE_DISTANCE_THRESHOLD : {400, 600}]
\* the values config.py falls back to when the environment sets none
DefaultConfig == [FACE_MATCH_THRESHOLD |-> 600, FACE_DISTANCE_THRESHOLD |-> 600]

(***************************************************************************)
(* LivenessChecker                                                         *)
(***************************************************************************)
EAR_THRESHOLD == 25
EAR_CONSEC_FRAMES == 3

\* __init__: predictor is the loaded shape predictor or None
LivenessChecker(predictor) ==
    [predictor |-> predictor, blink_counter |-> 0, frame_counter |-> 0,
     blink_history |-> <<>>]

\* floor of the square root, by Newton's iteration from above
RECURSIVE ISqrtFrom(_, _)
ISqrtFrom(x, r) ==
    LET next == (r + x \div r) \div 2
    IN  IF next >= r THEN r ELSE ISqrtFrom(x, next)
ISqrt(x) == IF x = 0 THEN 0 ELSE ISqrtFrom(x, x)

\* scipy.spatial.distance.euclidean of two points <<x, y>>; exact on the
\* pairs of points whose squared distance is a perfect square
euclidean(p, q) ==
    ISqrt((p[1] - q[1]) * (p[1] - q[1]) + (p[2] - q[2]) * (p[2] - q[2]))

\* a mutant of the eye aspect ratio: the divisor is off by one
eye_aspect_ratio_offset(self, eye_points) ==
    LET A == euclidean(eye_points[2], eye_points[6])
        B == euclidean(eye_points[3], eye_points[5])
        C == euclidean(eye_points[1], eye_points[4])
    IN  IF C = 0 THEN NaN ELSE ((A + B) * 100) \div (2 * C + 1)

\* eye_aspect_ratio in hundredths; eye_points[i] of the code is
\* eye_points[i + 1] here. With p0 = p3 numpy divides by zero and returns
\* inf or nan, with a warning and no exception.
eye_aspect_ratio(self, eye_points) ==
    LET A == euclidean(eye_points[2], eye_points[6])
        B == euclidean(eye_points[3], eye_points[5])
        C == euclidean(eye_points[1], eye_points[4])
    IN  IF C = 0 THEN NaN ELSE ((A + B) * 100) \div (2 * C)

\* a mutant of detect_blink: a missing predictor is not looked at
detect_blink_unguarded(self, frame) ==
    IF ~frame.face
    THEN [is_blink |-> FALSE, avg_ear2 |-> 0]
    ELSE LET avg_ear2 == frame.left_ear + frame.right_ear
         IN  [is_blink |-> avg_ear2 < 2 * EAR_THRESHOLD, avg_ear2 |-> avg_ear2]

\* detect_blink: (is_blink, avg_ear); avg_ear2 is twice the average
detect_blink(self, frame) ==
    IF self.predictor = None
    THEN [is_blink |-> FALSE, avg_ear2 |-> 0]
    ELSE IF ~frame.face
    THEN [is_blink |-> FALSE, avg_ear2 |-> 0]
    ELSE LET avg_ear2 == frame.left_ear + frame.right_ear
         IN  [is_blink |-> avg_ear2 < 2 * EAR_THRESHOLD, avg_ear2 |-> avg_ear2]

\* a mutant of the loop body: the run counter survives a short run
count_blinks_body_keep(self, loc, frame) ==
    IF detect_blink(self, frame).is_blink
    THEN [loc EXCEPT !.consecutive_closed = @ + 1]
    ELSE IF loc.consecutive_closed >= EAR_CONSEC_FRAMES
         THEN [blink_count |-> loc.blink_count + 1, consecutive_closed |-> 0]
         ELSE loc

\* a mutant of the loop body: a run must be longer than EAR_CONSEC_FRAMES
count_blinks_body_gt(self, loc, frame) ==
    IF detect_blink(self, frame).is_blink
    THEN [loc EXCEPT !.consecutive_closed = @ + 1]
    ELSE [blink_count |-> IF loc.consecutive_closed > EAR_CONSEC_FRAMES
                          THEN loc.blink_count + 1 ELSE loc.blink_count,
          consecutive_closed |-> 0]

\* count_blinks: one iteration of the for loop over the locals
count_blinks_body(self, loc, frame) ==
    IF detect_blink(self, frame).is_blink
    THEN [loc EXCEPT !.consecutive_closed = @ + 1]
    ELSE [blink_count |-> IF loc.consecutive_closed >= EAR_CONSEC_FRAMES
                          THEN loc.blink_count + 1 ELSE loc.blink_count,
          consecutive_closed |-> 0]

RECURSIVE count_blinks_loop(_, _, _, _)
count_blinks_loop(self, fs, i, loc) ==
    IF i > Len(fs) THEN loc
    ELSE count_blinks_loop(self, fs, i + 1, count_blinks_body(self, loc, fs[i]))

\* count_blinks as one call
count_blinks(self, fs) ==
    count_blinks_loop(self, fs, 1, [blink_count |-> 0, consecutive_closed |-> 0]).blink_count

\* a mutant of the step: the counters are the attributes of the instance
count_blinks_step_shared(self, loc, frame) ==
    LET kept == [blink_count |-> self.blink_counter,
                 consecutive_closed |-> self.frame_counter]
        new == count_blinks_body(self, kept, frame)
    IN  [self |-> [self EXCEPT !.blink_counter = new.blink_count,
                               !.frame_counter = new.consecutive_closed],
         loc |-> new]

\* one iteration of count_blinks with what it leaves in the instance: the
\* loop and detect_blink assign to their locals only, never to self
count_blinks_step(self, loc, frame) ==
    [self |-> self, loc |-> count_blinks_body(self, loc, frame)]

(***************************************************************************)
(* SpecBlinks: count_blinks run frame by frame on every frame sequence     *)
(***************************************************************************)
InitBlinks ==
    /\ config = DefaultConfig
    /\ checker \in {LivenessChecker("loaded"), LivenessChecker(None)}
    /\ pc = "count_blinks"
    /\ frames \in SeqsUpTo(BlinkFrames, MaxFrames)
    /\ idx = 1
    /\ blink_count = 0
    /\ consecutive_closed = 0
    /\ call = [op |-> "count_blinks"]
    /\ matcher = NoResult
    /\ result = NoResult
    /\ response = NoResult

\* one iteration of the for loop of count_blinks
CountBlinksIter ==
    /\ pc = "count_blinks"
    /\ idx <= Len(frames)
    /\ LET loc == count_blinks_body(checker,
                      [blink_count |-> blink_count,
                       consecutive_closed |-> consecutive_closed], frames[idx])
       IN  /\ blink_count' = loc.blink_count
           /\ consecutive_closed' = loc.consecutive_closed
    /\ idx' = idx + 1
    /\ UNCHANGED <<config, checker, pc, frames, call, matcher, result, response>>

\* return blink_count
CountBlinksReturn ==
    /\ pc = "count_blinks"
    /\ idx > Len(frames)
    /\ pc' = "returned"
    /\ result' = [op |-> "count_blinks", value |-> blink_count]
    /\ UNCHANGED <<config, checker, frames, idx, blink_count, consecutive_closed,
                   call, matcher, response>>

NextBlinks == CountBlinksIter \/ CountBlinksReturn

SpecBlinks == InitBlinks /\ [][NextBlinks]_vars

(***************************************************************************)
(* utils.check_image_quality                                               *)
(***************************************************************************)
\* a mutant of the quality gate: a brightness at its cut-off passes
check_image_quality_ge(image) ==
    LET brightness == image.gray_mean
        blur_score == image.laplacian_var
        contrast == image.gray_std
    IN  IF image.empty THEN Raised("cv2.error") ELSE
        [brightness |-> brightness,
         blur_score |-> blur_score,
         contrast |-> contrast,
         is_bright_enough |-> brightness >= 50,
         is_sharp_enough |-> blur_score > 100,
         has_good_contrast |-> contrast > 30]

check_image_quality(image) ==
    LET brightness == image.gray_mean
        blur_score == image.laplacian_var
        contrast == image.gray_std
    IN  IF image.empty THEN Raised("cv2.error") ELSE
        [brightness |-> brightness,
         blur_score |-> blur_score,
         contrast |-> contrast,
         is_bright_enough |-> brightness > 50,
         is_sharp_enough |-> blur_score > 100,
         has_good_contrast |-> contrast > 30]

(***************************************************************************)
(* LivenessChecker: head movement, passive liveness, check_liveness        *)
(***************************************************************************)
BLINK_THRESHOLD == 2

\* liveness scores are stored multiplied by Unit
Unit == 10000 * 3 * BLINK_THRESHOLD

Min(a, b) == IF a <= b THEN a ELSE b

RECURSIVE SumSeq(_)
SumSeq(xs) == IF xs = <<>> THEN 0 ELSE Head(xs) + SumSeq(Tail(xs))

\* a mutant of the variance test: a variance equal to the threshold counts
VarAtLeast(xs, threshold) ==
    LET n == Len(xs)
        sq == [i \in 1..n |-> xs[i] * xs[i]]
    IN  n * SumSeq(sq) - SumSeq(xs) * SumSeq(xs) >= threshold * n * n

\* np.var(xs) > threshold for a non-empty sequence of integers:
\* mean of squares minus square of mean, cleared of its denominators
VarExceeds(xs, threshold) ==
    LET n == Len(xs)
        sq == [i \in 1..n |-> xs[i] * xs[i]]
    IN  n * SumSeq(sq) - SumSeq(xs) * SumSeq(xs) > threshold * n * n

check_head_movement(self, fs) ==
    IF Len(fs) < 5 THEN FALSE
    ELSE LET found == SelectSeq(fs, LAMBDA f : f.face)
             xs == [i \in 1..Len(found) |-> found[i].cx]
             ys == [i \in 1..Len(found) |-> found[i].cy]
             movement_threshold == 100
         IN  IF Len(found) < 5 THEN FALSE
             ELSE VarExceeds(xs, movement_threshold) \/ VarExceeds(ys, movement_threshold)

\* a mutant of the passive check: a texture score at its cut-off passes
passive_liveness_check_ge(self, image) ==
    LET texture_score == image.laplacian_var
        color_variance == image.color_variance
        high_freq_score == image.high_freq
        is_live == /\ texture_score >= 50
                   /\ color_variance > 100
                   /\ high_freq_score # NaN
                   /\ high_freq_score > 10
        confidence == IF high_freq_score = NaN
                      THEN 100 * Unit
                      ELSE Min(100 * Unit,
                               (10 * texture_score + color_variance
                                   + 10 * high_freq_score) * 333 * 3 * BLINK_THRESHOLD)
    IN  [is_live |-> is_live,
         confidence |-> confidence,
         texture_score |-> texture_score,
         color_variance |-> color_variance,
         high_freq_score |-> high_freq_score]

\* a mutant of the passive check: the confidence is not capped
passive_liveness_check_uncapped(self, image) ==
    LET texture_score == image.laplacian_var
        color_variance == image.color_variance
        high_freq_score == image.high_freq
        is_live == /\ texture_score > 50
                   /\ color_variance > 100
                   /\ high_freq_score # NaN
                   /\ high_freq_score > 10
        confidence == IF high_freq_score = NaN
                      THEN 100 * Unit
                      ELSE (10 * texture_score + color_variance + 10 * high_freq_score)
                               * 333 * 3 * BLINK_THRESHOLD
    IN  [is_live |-> is_live,
         confidence |-> confidence,
         texture_score |-> texture_score,
         color_variance |-> color_variance,
         high_freq_score |-> high_freq_score]

passive_liveness_check(self, image) ==
    LET texture_score == image.laplacian_var
        color_variance == image.color_variance
        high_freq_score == image.high_freq
        is_live == /\ texture_score > 50
                   /\ color_variance > 100
                   /\ high_freq_score # NaN
                   /\ high_freq_score > 10
        \* (t/100 + c/1000 + h/100) * 33.3, times Unit; min(100, nan) is 100,
        \* as nan < 100 is false
        confidence == IF high_freq_score = NaN
                      THEN 100 * Unit
                      ELSE Min(100 * Unit,
                               (10 * texture_score + color_variance
                                   + 10 * high_freq_score) * 333 * 3 * BLINK_THRESHOLD)
    IN  [is_live |-> is_live,
         confidence |-> confidence,
         texture_score |-> texture_score,
         color_variance |-> color_variance,
         high_freq_score |-> high_freq_score]

\* a mutant of the branch: a fused score of exactly 50 passes
check_liveness_branch_ge(self, image, fs, active) ==
    LET quality_checks == check_image_quality(image)
        passive_result == passive_liveness_check(self, image)
    IN  IF active
        THEN LET bc == count_blinks(self, fs[1])
                 head_movement == check_head_movement(self, fs[1])
                 blink_score == Min(100 * Unit, (bc * 50 * Unit) \div BLINK_THRESHOLD)
                 movement_score == IF head_movement THEN 50 * Unit ELSE 0
                 passive_score == passive_result.confidence
                 liveness_score == (blink_score + movement_score + passive_score) \div 3
             IN  [quality_checks |-> quality_checks,
                  passive_liveness |-> passive_result,
                  blink_count |-> bc,
                  head_movement_detected |-> head_movement,
                  liveness_score |-> liveness_score,
                  passed |-> liveness_score >= 50 * Unit]
        ELSE [quality_checks |-> quality_checks,
              passive_liveness |-> passive_result,
              blink_count |-> 0,
              head_movement_detected |-> FALSE,
              liveness_score |-> passive_result.confidence,
              passed |-> passive_result.is_live]

\* a mutant of the branch: the passive-only mode decides on the score
check_liveness_branch_score(self, image, fs, active) ==
    LET quality_checks == check_image_quality(image)
        passive_result == passive_liveness_check(self, image)
    IN  IF active
        THEN LET bc == count_blinks(self, fs[1])
                 head_movement == check_head_movement(self, fs[1])
                 blink_score == Min(100 * Unit, (bc * 50 * Unit) \div BLINK_THRESHOLD)
                 movement_score == IF head_movement THEN 50 * Unit ELSE 0
                 passive_score == passive_result.confidence
                 liveness_score == (blink_score + movement_score + passive_score) \div 3
             IN  [quality_checks |-> quality_checks,
                  passive_liveness |-> passive_result,
                  blink_count |-> bc,
                  head_movement_detected |-> head_movement,
                  liveness_score |-> liveness_score,
                  passed |-> liveness_score > 50 * Unit]
        ELSE [quality_checks |-> quality_checks,
              passive_liveness |-> passive_result,
              blink_count |-> 0,
              head_movement_detected |-> FALSE,
              liveness_score |-> passive_result.confidence,
              passed |-> passive_result.confidence > 50 * Unit]

\* a mutant of the branch: head movement is worth 60
check_liveness_branch_move60(self, image, fs, active) ==
    LET quality_checks == check_image_quality(image)
        passive_result == passive_liveness_check(self, image)
    IN  IF active
        THEN LET bc == count_blinks(self, fs[1])
                 head_movement == check_head_movement(self, fs[1])
                 blink_score == Min(100 * Unit, (bc * 50 * Unit) \div BLINK_THRESHOLD)
                 movement_score == IF head_movement THEN 60 * Unit ELSE 0
                 passive_score == passive_result.confidence
                 liveness_score == (blink_score + movement_score + passive_score) \div 3
             IN  [quality_checks |-> quality_checks,
                  passive_liveness |-> passive_result,
                  blink_count |-> bc,
                  head_movement_detected |-> head_movement,
                  liveness_score |-> liveness_score,
                  passed |-> liveness_score > 50 * Unit]
        ELSE [quality_checks |-> quality_checks,
              passive_liveness |-> passive_result,
              blink_count |-> 0,
              head_movement_detected |-> FALSE,
              liveness_score |-> passive_result.confidence,
              passed |-> passive_result.is_live]

\* the active branch of check_liveness, given the truth value of its guard
check_liveness_branch(self, image, fs, active) ==
    LET quality_checks == check_image_quality(image)
        passive_result == passive_liveness_check(self, image)
    IN  IF active
        THEN LET bc == count_blinks(self, fs[1])
                 head_movement == check_head_movement(self, fs[1])
                 blink_score == Min(100 * Unit, (bc * 50 * Unit) \div BLINK_THRESHOLD)
                 movement_score == IF head_movement THEN 50 * Unit ELSE 0
                 passive_score == passive_result.confidence
                 liveness_score == (blink_score + movement_score + passive_score) \div 3
             IN  [quality_checks |-> quality_checks,
                  passive_liveness |-> passive_result,
                  blink_count |-> bc,
                  head_movement_detected |-> head_movement,
                  liveness_score |-> liveness_score,
                  passed |-> liveness_score > 50 * Unit]
        ELSE [quality_checks |-> quality_checks,
              passive_liveness |-> passive_result,
              blink_count |-> 0,
              head_movement_detected |-> FALSE,
              liveness_score |-> passive_result.confidence,
              passed |-> passive_result.is_live]

\* check_liveness from the return of count_blinks on: the head movement and
\* the fusion of the three scores
check_liveness_fuse(self, image, fs, bc) ==
    LET quality_checks == check_image_quality(image)
        passive_result == passive_liveness_check(self, image)
        head_movement == check_head_movement(self, fs[1])
        blink_score == Min(100 * Unit, (bc * 50 * Unit) \div BLINK_THRESHOLD)
        movement_score == IF head_movement THEN 50 * Unit ELSE 0
        passive_score == passive_result.confidence
        liveness_score == (blink_score + movement_score + passive_score) \div 3
    IN  [quality_checks |-> quality_checks,
         passive_liveness |-> passive_result,
         blink_count |-> bc,
         head_movement_detected |-> head_movement,
         liveness_score |-> liveness_score,
         passed |-> liveness_score > 50 * Unit]

\* a mutant of the guard: any non-empty frame sequence is analysed
check_liveness_any_frames(self, image, fs) ==
    IF IsRaised(check_image_quality(image)) THEN check_image_quality(image)
    ELSE check_liveness_branch(self, image, fs, fs # Absent /\ fs[1] # <<>>)

\* fs is Absent (frames=None) or Some(sequence of frames); an exception of
\* check_image_quality, the first statement, leaves check_liveness uncaught
check_liveness(self, image, fs) ==
    IF IsRaised(check_image_quality(image)) THEN check_image_quality(image)
    ELSE check_liveness_branch(self, image, fs,
                               fs # Absent /\ fs[1] # <<>> /\ Len(fs[1]) > 1)

\* analyze_single_image
analyze_single_image(self, image) == check_liveness(self, image, Absent)

(***************************************************************************)
(* Spec: check_liveness and the callers that capture a live face           *)
(***************************************************************************)
Init ==
    /\ config = DefaultConfig
    /\ checker \in {LivenessChecker("loaded"), LivenessChecker(None)}
    /\ pc = "idle"
    /\ frames = <<>>
    /\ idx = 1
    /\ blink_count = 0
    /\ consecutive_closed = 0
    /\ call = NoResult
    /\ matcher = NoResult
    /\ result = NoResult
    /\ response = NoResult

\* a caller runs check_liveness(image, frames) on the checker
CheckLiveness ==
    /\ pc = "idle"
    /\ \E image \in LiveImages : \E fs \in FrameArgs(image) :
          LET returned == check_liveness(checker, image, fs)
          IN  /\ call' = [op |-> "check_liveness", image |-> image, frames |-> fs]
              /\ result' = returned
              /\ pc' = IF IsRaised(returned) THEN "raised" ELSE "done"
    /\ response' = NoResult
    /\ UNCHANGED <<config, checker, frames, idx, blink_count, consecutive_closed, matcher>>

\* a caller runs check_head_movement(frames) on the checker
CheckHeadMovement ==
    /\ pc = "idle"
    /\ \E q \in LiveFrameSeqs :
          /\ call' = [op |-> "check_head_movement", frames |-> Some(q)]
          /\ result' = [value |-> check_head_movement(checker, q)]
    /\ pc' = "done"
    /\ response' = NoResult
    /\ UNCHANGED <<config, checker, frames, idx, blink_count, consecutive_closed, matcher>>

\* FaceDetector.extract_largest_face: None when no face location is found
extract_largest_face(image) == IF image.face THEN Some("face_image") ELSE Absent

\* api.capture_liveness: the still image goes through check_liveness, then the
\* face is extracted; without a face the HTTPException(400) raised inside the
\* try block is caught by "except Exception" and leaves as a 500 error
ApiCaptureLiveness ==
    /\ pc = "idle"
    /\ \E image \in DecodedImages :
          LET liveness_result == check_liveness(checker, image, Absent)
              face_result == extract_largest_face(image)
          IN  /\ call' = [op |-> "api.capture_liveness", image |-> image, frames |-> Absent]
              /\ result' = liveness_result
              /\ response' =
                    IF face_result = Absent
                    THEN [success |-> FALSE, status_code |-> 500,
                          detail |-> "No face detected in image"]
                    ELSE [success |-> TRUE, status_code |-> 200,
                          liveness_score |-> liveness_result.liveness_score,
                          liveness_passed |-> liveness_result.passed,
                          quality_checks |-> liveness_result.quality_checks]
    /\ pc' = "done"
    /\ UNCHANGED <<config, checker, frames, idx, blink_count, consecutive_closed, matcher>>

\* app.py Tab 2: a fresh LivenessChecker per click; the result is shown only
\* when a face is extracted, otherwise "No face detected in image"
UiVerifyLiveness ==
    /\ pc = "idle"
    /\ \E image \in DecodedImages :
          LET liveness_checker == LivenessChecker(checker.predictor)
              liveness_result == check_liveness(liveness_checker, image, Absent)
              face_result == extract_largest_face(image)
          IN  /\ call' = [op |-> "app.verify_liveness", image |-> image, frames |-> Absent]
              /\ result' = liveness_result
              /\ response' =
                    IF face_result = Absent
                    THEN [success |-> FALSE, status_code |-> 0,
                          detail |-> "No face detected in image"]
                    ELSE [success |-> TRUE, status_code |-> 0,
                          liveness_score |-> liveness_result.liveness_score,
                          liveness_passed |-> liveness_result.passed,
                          quality_checks |-> liveness_result.quality_checks]
    /\ pc' = "done"
    /\ UNCHANGED <<config, checker, frames, idx, blink_count, consecutive_closed, matcher>>

\* the operation has returned; the next request may start
Return ==
    /\ pc \in {"done", "raised"}
    /\ pc' = "idle"
    /\ call' = NoResult
    /\ result' = NoResult
    /\ response' = NoResult
    /\ UNCHANGED <<config, checker, frames, idx, blink_count, consecutive_closed, matcher>>

Next ==
    \/ CheckLiveness
    \/ CheckHeadMovement
    \/ ApiCaptureLiveness
    \/ UiVerifyLiveness
    \/ Return

Spec == Init /\ [][Next]_vars

(***************************************************************************)
(* FaceMatcher                                                             *)
(***************************************************************************)
Abs(x) == IF x < 0 THEN -x ELSE x

\* __init__(threshold=None): "threshold or Config.FACE_MATCH_THRESHOLD" takes
\* the configured value whenever the argument is falsy (None or 0.0)
FaceMatcher(cfg, threshold) ==
    [threshold |-> IF threshold # Absent /\ threshold[1] # 0
                   THEN threshold[1] ELSE cfg.FACE_MATCH_THRESHOLD,
     distance_threshold |-> cfg.FACE_DISTANCE_THRESHOLD]

\* face_recognition.face_distance: Euclidean norm of the difference
face_distance(e1, e2) == Abs(e1 - e2)

\* a mutant of compare_faces: a distance equal to the tolerance is rejected
compare_faces_strict(e1, e2, tolerance) == face_distance(e1, e2) < tolerance

\* face_recognition.compare_faces: distance <= tolerance
compare_faces(e1, e2, tolerance) == face_distance(e1, e2) <= tolerance

\* a mutant of the embedding comparison: the failure value carries a no-match
compare_faces_dlib_nomatch(self, face1, face2) ==
    LET encodings1 == face1.encodings
        encodings2 == face2.encodings
    IN  IF encodings1 = <<>> \/ encodings2 = <<>>
        THEN [success |-> FALSE,
              error |-> "Could not detect face in one or both images",
              match |-> FALSE, distance |-> 0, similarity_score |-> 0]
        ELSE LET distance == face_distance(encodings1[1], encodings2[1])
                 match == compare_faces(encodings1[1], encodings2[1],
                                        self.distance_threshold)
                 similarity_score == 1000 - distance
             IN  [success |-> TRUE,
                  match |-> match,
                  distance |-> distance,
                  similarity_score |-> similarity_score,
                  confidence |-> similarity_score * 100,
                  method |-> "dlib"]

compare_faces_dlib(self, face1, face2) ==
    LET encodings1 == face1.encodings
        encodings2 == face2.encodings
    IN  IF encodings1 = <<>> \/ encodings2 = <<>>
        THEN [success |-> FALSE,
              error |-> "Could not detect face in one or both images"]
        ELSE LET distance == face_distance(encodings1[1], encodings2[1])
                 match == compare_faces(encodings1[1], encodings2[1],
                                        self.distance_threshold)
                 similarity_score == 1000 - distance
             IN  [success |-> TRUE,
                  match |-> match,
                  distance |-> distance,
                  similarity_score |-> similarity_score,
                  confidence |-> similarity_score * 100,
                  method |-> "dlib"]

RECURSIVE SumFn(_, _)
SumFn(f, S) ==
    IF S = {} THEN 0
    ELSE LET b == CHOOSE x \in S : TRUE IN f[b] + SumFn(f, S \ {b})

\* cv2.calcHist([gray], [0], None, [256], [0, 256]): the count of each grey
\* level; the bins that hold no pixel are left out of the function
HistSize == 256
calcHist(gray) ==
    [b \in {gray[i] : i \in 1..Len(gray)} |->
        Cardinality({i \in 1..Len(gray) : gray[i] = b})]
BinCount(hist, b) == IF b \in DOMAIN hist THEN hist[b] ELSE 0

\* cv2.compareHist(hist1, hist2, cv2.HISTCMP_CORREL), in thousandths: the
\* correlation of the two histograms over the 256 bins, with numerator and
\* denominator cleared of the bin count
compareHist(hist1, hist2) ==
    LET bins == DOMAIN hist1 \cup DOMAIN hist2
        s1 == SumFn([b \in bins |-> BinCount(hist1, b)], bins)
        s2 == SumFn([b \in bins |-> BinCount(hist2, b)], bins)
        s11 == SumFn([b \in bins |-> BinCount(hist1, b) * BinCount(hist1, b)], bins)
        s22 == SumFn([b \in bins |-> BinCount(hist2, b) * BinCount(hist2, b)], bins)
        s12 == SumFn([b \in bins |-> BinCount(hist1, b) * BinCount(hist2, b)], bins)
        num == HistSize * s12 - s1 * s2
        denom2 == (HistSize * s11 - s1 * s1) * (HistSize * s22 - s2 * s2)
    IN  IF denom2 = 0 THEN 1000 ELSE (1000 * num) \div ISqrt(denom2)

\* cv2.GaussianBlur with the default border (BORDER_REFLECT_101), on a row of
\* pixels with the kernel (1, 2, 1)/4: the result is kept times 4
Reflect(i, n) == IF i < 1 THEN 2 - i ELSE IF i > n THEN 2 * n - i ELSE i
GaussianBlur(img) ==
    [i \in 1..Len(img) |->
        img[Reflect(i - 1, Len(img))] + 2 * img[i] + img[Reflect(i + 1, Len(img))]]

\* the two stabilising constants of _calculate_ssim, 6.5025 and 58.5225,
\* times 16
SSIM_C1 == 104
SSIM_C2 == 936

\* a mutant of the SSIM: the variance of the first image stands for both
_calculate_ssim_first(img1, img2) ==
    LET mu1 == GaussianBlur(img1)
        mu2 == GaussianBlur(img2)
        blur1_sq == GaussianBlur([i \in 1..Len(img1) |-> img1[i] * img1[i]])
        blur2_sq == GaussianBlur([i \in 1..Len(img2) |-> img2[i] * img2[i]])
        blur12 == GaussianBlur([i \in 1..Len(img1) |-> img1[i] * img2[i]])
        ssim_map ==
            [i \in 1..Len(img1) |->
                LET mu1_sq == mu1[i] * mu1[i]
                    mu2_sq == mu2[i] * mu2[i]
                    mu1_mu2 == mu1[i] * mu2[i]
                    sigma1_sq == 4 * blur1_sq[i] - mu1_sq
                    sigma2_sq == 4 * blur2_sq[i] - mu2_sq
                    sigma12 == 4 * blur12[i] - mu1_mu2
                IN  (((1000 * (2 * mu1_mu2 + SSIM_C1)) \div (mu1_sq + mu2_sq + SSIM_C1))
                     * ((1000 * (2 * sigma12 + SSIM_C2)) \div (sigma1_sq + sigma1_sq + SSIM_C2)))
                    \div 1000]
    IN  SumSeq(ssim_map) \div Len(img1)

\* _calculate_ssim, in thousandths. Means, variances and the covariance are
\* kept times 16 (the square of the kernel's denominator); the map is the
\* product of the luminance ratio and the structure ratio, then averaged.
_calculate_ssim(img1, img2) ==
    LET mu1 == GaussianBlur(img1)
        mu2 == GaussianBlur(img2)
        blur1_sq == GaussianBlur([i \in 1..Len(img1) |-> img1[i] * img1[i]])
        blur2_sq == GaussianBlur([i \in 1..Len(img2) |-> img2[i] * img2[i]])
        blur12 == GaussianBlur([i \in 1..Len(img1) |-> img1[i] * img2[i]])
        ssim_map ==
            [i \in 1..Len(img1) |->
                LET mu1_sq == mu1[i] * mu1[i]
                    mu2_sq == mu2[i] * mu2[i]
                    mu1_mu2 == mu1[i] * mu2[i]
                    sigma1_sq == 4 * blur1_sq[i] - mu1_sq
                    sigma2_sq == 4 * blur2_sq[i] - mu2_sq
                    sigma12 == 4 * blur12[i] - mu1_mu2
                IN  (((1000 * (2 * mu1_mu2 + SSIM_C1)) \div (mu1_sq + mu2_sq + SSIM_C1))
                     * ((1000 * (2 * sigma12 + SSIM_C2)) \div (sigma1_sq + sigma2_sq + SSIM_C2)))
                    \div 1000]
    IN  SumSeq(ssim_map) \div Len(img1)

\* a mutant of the structural comparison: a score equal to the threshold matches
compare_faces_opencv_ge(self, face1, face2) ==
    LET gray1 == face1.pixels
        gray2 == face2.pixels
        hist1 == calcHist(gray1)
        hist2 == calcHist(gray2)
        similarity == compareHist(hist1, hist2)
        ssim_score == _calculate_ssim(gray1, gray2)
        combined_score == (similarity + ssim_score) \div 2
        match == combined_score >= self.threshold
    IN  [success |-> TRUE,
         match |-> match,
         similarity_score |-> combined_score,
         confidence |-> combined_score * 100,
         hist_similarity |-> similarity,
         ssim_score |-> ssim_score,
         method |-> "opencv"]

\* a mutant of the structural comparison: the comparison is inverted
compare_faces_opencv_below(self, face1, face2) ==
    LET gray1 == face1.pixels
        gray2 == face2.pixels
        hist1 == calcHist(gray1)
        hist2 == calcHist(gray2)
        similarity == compareHist(hist1, hist2)
        ssim_score == _calculate_ssim(gray1, gray2)
        combined_score == (similarity + ssim_score) \div 2
        match == combined_score < self.threshold
    IN  [success |-> TRUE,
         match |-> match,
         similarity_score |-> combined_score,
         confidence |-> combined_score * 100,
         hist_similarity |-> similarity,
         ssim_score |-> ssim_score,
         method |-> "opencv"]

compare_faces_opencv(self, face1, face2) ==
    LET gray1 == face1.pixels
        gray2 == face2.pixels
        hist1 == calcHist(gray1)
        hist2 == calcHist(gray2)
        similarity == compareHist(hist1, hist2)
        ssim_score == _calculate_ssim(gray1, gray2)
        combined_score == (similarity + ssim_score) \div 2
        match == combined_score > self.threshold
    IN  [success |-> TRUE,
         match |-> match,
         similarity_score |-> combined_score,
         confidence |-> combined_score * 100,
         hist_similarity |-> similarity,
         ssim_score |-> ssim_score,
         method |-> "opencv"]

\* a mutant of the dispatch: an unknown method name goes to the structural
\* method
match_faces_else_opencv(self, face1, face2, method) ==
    IF face1.empty \/ face2.empty THEN Raised("cv2.error")
    ELSE IF method = "dlib" THEN compare_faces_dlib(self, face1, face2)
    ELSE compare_faces_opencv(self, face1, face2)

\* cv2.cvtColor (compare_faces_dlib) and cv2.resize (compare_faces_opencv)
\* raise on a crop without pixels and nothing on the way catches it
match_faces(self, face1, face2, method) ==
    IF face1.empty \/ face2.empty THEN Raised("cv2.error")
    ELSE IF method = "dlib" THEN compare_faces_dlib(self, face1, face2)
    ELSE IF method = "opencv" THEN compare_faces_opencv(self, face1, face2)
    ELSE compare_faces_dlib(self, face1, face2)

\* cv2.resize(src, (width, height)): cv2.error when the target has no area
resize(shape, width, height) ==
    IF width = 0 \/ height = 0 THEN Raised("cv2.error")
    ELSE [h |-> height, w |-> width, channels |-> shape.channels]

\* np.hstack of two images of equal height: ValueError when one has a
\* channel axis the other lacks or of another length (channels 1 stands for
\* a two-dimensional grey image)
hstack(img1, img2) ==
    IF img1.channels # img2.channels THEN Raised("ValueError")
    ELSE [h |-> img1.h, w |-> img1.w + img2.w, channels |-> img1.channels]

\* create_comparison_image on the shapes of the two crops; int(w * (300 / h))
\* truncates; the text overlays write into the image and change no shape
create_comparison_image(self, face1, face2, match_result) ==
    LET h1 == face1.h
        w1 == face1.w
        h2 == face2.h
        w2 == face2.w
        target_height == 300
        new_w1 == (w1 * target_height) \div h1
        new_w2 == (w2 * target_height) \div h2
        resized1 == resize(face1, new_w1, target_height)
        resized2 == resize(face2, new_w2, target_height)
    IN  IF IsRaised(resized1) THEN resized1
        ELSE IF IsRaised(resized2) THEN resized2
        ELSE hstack(resized1, resized2)

\* a mutant of the matcher after a call: the threshold follows the last score
match_faces_self_adapts(self, face1, face2, method) ==
    IF method = "opencv"
    THEN [self EXCEPT !.threshold = compare_faces_opencv(self, face1, face2).similarity_score]
    ELSE self

\* the matcher after match_faces: neither comparison assigns to self
match_faces_self(self, face1, face2, method) ==
    self

(***************************************************************************)
(* SpecMatch: the matcher and the callers that report its decision         *)
(***************************************************************************)
InitMatch ==
    /\ config \in ConfigValues
    /\ checker = LivenessChecker("loaded")
    /\ pc = "idle"
    /\ frames = <<>>
    /\ idx = 1
    /\ blink_count = 0
    /\ consecutive_closed = 0
    /\ call = NoResult
    /\ matcher = NoResult
    /\ result = NoResult
    /\ response = NoResult

\* a caller constructs FaceMatcher(threshold) and runs match_faces(.., method)
MatchFaces ==
    /\ pc = "idle"
    /\ \E face1 \in FaceCrops, face2 \in FaceCrops, method \in Methods,
          threshold \in {Absent} \cup {Some(t) : t \in SuppliedThresholds} :
          LET face_matcher == FaceMatcher(config, threshold)
          IN  /\ call' = [op |-> "match_faces", face1 |-> face1, face2 |-> face2,
                          method |-> method, threshold |-> threshold]
              /\ matcher' = face_matcher
              /\ result' = match_faces(face_matcher, face1, face2, method)
              /\ pc' = IF IsRaised(match_faces(face_matcher, face1, face2, method))
                       THEN "raised" ELSE "done"
    /\ response' = NoResult
    /\ UNCHANGED <<config, checker, frames, idx, blink_count, consecutive_closed>>

\* api.match_faces: the module level FaceMatcher(), default method; a failed
\* comparison leaves as HTTPException(400)
ApiMatchFaces ==
    /\ pc = "idle"
    /\ \E doc_face \in LoadedCrops, live_face \in LoadedCrops :
          LET face_matcher == FaceMatcher(config, Absent)
              match_result == match_faces(face_matcher, doc_face, live_face, "dlib")
          IN  /\ call' = [op |-> "api.match_faces", face1 |-> doc_face,
                          face2 |-> live_face, method |-> "dlib", threshold |-> Absent]
              /\ matcher' = face_matcher
              /\ result' = match_result
              /\ response' =
                    IF ~match_result.success
                    THEN [success |-> FALSE, status_code |-> 400,
                          detail |-> match_result.error]
                    ELSE [success |-> TRUE, status_code |-> 200,
                          match_score |-> match_result.similarity_score,
                          match_distance |-> match_result.distance,
                          match_passed |-> match_result.match,
                          threshold_used |-> config.FACE_MATCH_THRESHOLD]
    /\ pc' = "done"
    /\ UNCHANGED <<config, checker, frames, idx, blink_count, consecutive_closed>>

\* app.py Tab 3: FaceMatcher(threshold=face_threshold) with the slider value,
\* default method; the Threshold metric shows face_threshold
UiMatchFaces ==
    /\ pc = "idle"
    /\ \E doc_face \in LoadedCrops, live_face \in LoadedCrops,
          face_threshold \in SuppliedThresholds :
          LET face_matcher == FaceMatcher(config, Some(face_threshold))
              match_result == match_faces(face_matcher, doc_face, live_face, "dlib")
          IN  /\ call' = [op |-> "app.match_faces", face1 |-> doc_face,
                          face2 |-> live_face, method |-> "dlib",
                          threshold |-> Some(face_threshold)]
              /\ matcher' = face_matcher
              /\ result' = match_result
              /\ response' =
                    IF ~match_result.success
                    THEN [success |-> FALSE, status_code |-> 0,
                          detail |-> match_result.error]
                    ELSE [success |-> TRUE, status_code |-> 0,
                          match_score |-> match_result.similarity_score,
                          match_distance |-> match_result.distance,
                          match_passed |-> match_result.match,
                          threshold_used |-> face_threshold]
    /\ pc' = "done"
    /\ UNCHANGED <<config, checker, frames, idx, blink_count, consecutive_closed>>

\* the operation has returned; the next request may start
ReturnMatch ==
    /\ pc \in {"done", "raised"}
    /\ pc' = "idle"
    /\ call' = NoResult
    /\ matcher' = NoResult
    /\ result' = NoResult
    /\ response' = NoResult
    /\ UNCHANGED <<config, checker, frames, idx, blink_count, consecutive_closed>>

NextMatch == MatchFaces \/ ApiMatchFaces \/ UiMatchFaces \/ ReturnMatch

SpecMatch == InitMatch /\ [][NextMatch]_vars

(***************************************************************************)
(* SpecPure: the pure functions applied to inputs drawn from bounded sets  *)
(***************************************************************************)
\* every row of 4 grey levels drawn from three levels
GreyLevels == {0, 100, 200}
GreyRows == [1..4 -> GreyLevels]
GreyCrops == [encodings : {<<>>}, pixels : GreyRows, empty : {FALSE}]

InitPure ==
    /\ config = DefaultConfig
    /\ checker = LivenessChecker("loaded")
    /\ pc = "idle"
    /\ frames = <<>>
    /\ idx = 1
    /\ blink_count = 0
    /\ consecutive_closed = 0
    /\ call = NoResult
    /\ matcher = NoResult
    /\ result = NoResult
    /\ response = NoResult

\* FaceMatcher().compare_faces_opencv(face1, face2)
CompareFacesOpencv ==
    /\ pc = "idle"
    /\ \E face1 \in GreyCrops, face2 \in GreyCrops :
          LET face_matcher == FaceMatcher(config, Absent)
          IN  /\ call' = [op |-> "compare_faces_opencv", face1 |-> face1, face2 |-> face2]
              /\ matcher' = face_matcher
              /\ result' = compare_faces_opencv(face_matcher, face1, face2)
    /\ pc' = "done"
    /\ response' = NoResult
    /\ UNCHANGED <<config, checker, frames, idx, blink_count, consecutive_closed>>

\* Six eye landmarks: the corners p0 and p3 and the two lid pairs (p1, p5)
\* and (p2, p4), each pair apart by a vector of whole length; the eye lies
\* along the x axis, along the y axis or tilted
Origins == {<<0, 0>>, <<7, 11>>}
CornerVectors == {<<4, 0>>, <<8, 6>>, <<0, 5>>, <<12, 5>>}
LidVectors == {<<0, 0>>, <<0, 1>>, <<0, 3>>, <<3, 4>>, <<-4, 3>>}
Plus(p, v) == <<p[1] + v[1], p[2] + v[2]>>
EyePoints ==
    {<<o, Plus(o, <<1, 2>>), Plus(o, <<3, 2>>), Plus(o, c),
       Plus(Plus(o, <<3, 2>>), v2), Plus(Plus(o, <<1, 2>>), v1)>> :
        o \in Origins, c \in CornerVectors, v1 \in LidVectors, v2 \in LidVectors}

\* the scale factors k
Scales == {2, 3, 10}
Scaled(eye_points, k) ==
    [i \in 1..Len(eye_points) |-> <<k * eye_points[i][1], k * eye_points[i][2]>>]

\* LivenessChecker().eye_aspect_ratio(eye_points)
EyeAspectRatio ==
    /\ pc = "idle"
    /\ \E eye_points \in EyePoints :
          /\ call' = [op |-> "eye_aspect_ratio", eye_points |-> eye_points]
          /\ result' = [value |-> eye_aspect_ratio(checker, eye_points)]
    /\ pc' = "done"
    /\ matcher' = NoResult
    /\ response' = NoResult
    /\ UNCHANGED <<config, checker, frames, idx, blink_count, consecutive_closed>>

\* shapes of non-empty crops: square, wide, and taller than 300 times the
\* width; two-dimensional grey (1 channel) or BGR (3 channels)
CropHeights == {1, 100, 300, 301, 700}
CropWidths == {1, 2, 100}
CropShapes == [h : CropHeights, w : CropWidths, channels : {1, 3}]
MatchResults == {[success |-> TRUE, match |-> TRUE, confidence |-> 90000],
                 [success |-> FALSE]}

\* FaceMatcher().create_comparison_image(face1, face2, match_result)
CreateComparisonImage ==
    /\ pc = "idle"
    /\ \E face1 \in CropShapes, face2 \in CropShapes, match_result \in MatchResults :
          LET face_matcher == FaceMatcher(config, Absent)
              comparison == create_comparison_image(face_matcher, face1, face2,
                                                    match_result)
          IN  /\ call' = [op |-> "create_comparison_image", face1 |-> face1,
                          face2 |-> face2, match_result |-> match_result]
              /\ matcher' = face_matcher
              /\ result' = comparison
              /\ pc' = IF IsRaised(comparison) THEN "raised" ELSE "done"
    /\ response' = NoResult
    /\ UNCHANGED <<config, checker, frames, idx, blink_count, consecutive_closed>>

ReturnPure ==
    /\ pc \in {"done", "raised"}
    /\ pc' = "idle"
    /\ call' = NoResult
    /\ matcher' = NoResult
    /\ result' = NoResult
    /\ response' = NoResult
    /\ UNCHANGED <<config, checker, frames, idx, blink_count, consecutive_closed>>

NextPure ==
    \/ CompareFacesOpencv
    \/ CreateComparisonImage
    \/ EyeAspectRatio
    \/ ReturnPure

SpecPure == InitPure /\ [][NextPure]_vars

(***************************************************************************)
(* SpecShared: liveness checks of several sessions in flight at once.      *)
(* pc, frames, idx, blink_count, consecutive_closed, call and result hold  *)
(* one value per session; checker holds the instances: 0 is the module     *)
(* level liveness_checker of api.py, s the one session s constructed.      *)
(***************************************************************************)
MaxSessions == 2
Sessions == 1..MaxSessions
ApiTracker == 0

\* a request of the API, a click in the UI (both without frames), or a caller
\* that hands frames to the module level instance
Kinds == {"api.capture_liveness", "app.verify_liveness", "check_liveness"}
SharedImages ==
    {image \in FusionImages :
        /\ image.laplacian_var = 101 /\ image.high_freq = 11
        /\ image.color_variance \in {101, 3000}}
SharedFrameSeqs ==
    {<<ClosedFrame, ClosedFrame, ClosedFrame, EdgeFrame>>,
     <<ClosedFrame, ClosedFrame, EdgeFrame>>,
     <<ClosedFrame, EdgeFrame>>,
     <<NoFaceFrame, ClosedFrame, ClosedFrame>>}
SharedFrameArgs(kind) ==
    IF kind = "check_liveness" THEN {Some(q) : q \in SharedFrameSeqs} ELSE {Absent}

\* two crops for the calls on the module level face_matcher
SharedCrops ==
    {crop \in LoadedCrops :
        \/ crop.encodings = <<0>> /\ crop.pixels = <<50, 0, 50, 200>>
        \/ crop.encodings = <<600>> /\ crop.pixels = <<200, 50, 50, 100>>}

InitShared ==
    /\ config = DefaultConfig
    /\ checker = [t \in {ApiTracker} \cup Sessions |-> LivenessChecker("loaded")]
    /\ pc = [s \in Sessions |-> "idle"]
    /\ frames = [s \in Sessions |-> <<>>]
    /\ idx = [s \in Sessions |-> 1]
    /\ blink_count = [s \in Sessions |-> 0]
    /\ consecutive_closed = [s \in Sessions |-> 0]
    /\ call = [s \in Sessions |-> NoResult]
    /\ matcher = FaceMatcher(DefaultConfig, Absent)
    /\ result = [s \in Sessions |-> NoResult]
    /\ response = NoResult

\* the session enters check_liveness: the UI constructs its own
\* LivenessChecker(), the others use the module level one; with more than
\* one frame count_blinks starts with its two locals at 0
SharedStart(s) ==
    /\ pc[s] = "idle"
    /\ \E kind \in Kinds, image \in SharedImages :
        \E fs \in SharedFrameArgs(kind) :
          LET tracker == IF kind = "app.verify_liveness" THEN s ELSE ApiTracker
              active == fs # Absent /\ fs[1] # <<>> /\ Len(fs[1]) > 1
          IN  /\ call' = [call EXCEPT ![s] = [op |-> kind, image |-> image,
                                              frames |-> fs, tracker |-> tracker]]
              /\ checker' = IF kind = "app.verify_liveness"
                            THEN [checker EXCEPT ![s] = LivenessChecker("loaded")]
                            ELSE checker
              /\ frames' = [frames EXCEPT ![s] = IF active THEN fs[1] ELSE <<>>]
              /\ pc' = [pc EXCEPT ![s] = IF active THEN "count_blinks" ELSE "passive"]
    /\ idx' = [idx EXCEPT ![s] = 1]
    /\ blink_count' = [blink_count EXCEPT ![s] = 0]
    /\ consecutive_closed' = [consecutive_closed EXCEPT ![s] = 0]
    /\ UNCHANGED <<config, matcher, result, response>>

\* one iteration of the for loop of count_blinks in session s
SharedCountBlinksIter(s) ==
    /\ pc[s] = "count_blinks"
    /\ idx[s] <= Len(frames[s])
    /\ LET step == count_blinks_step(checker[call[s].tracker],
                       [blink_count |-> blink_count[s],
                        consecutive_closed |-> consecutive_closed[s]],
                       frames[s][idx[s]])
       IN  /\ checker' = [checker EXCEPT ![call[s].tracker] = step.self]
           /\ blink_count' = [blink_count EXCEPT ![s] = step.loc.blink_count]
           /\ consecutive_closed' =
                  [consecutive_closed EXCEPT ![s] = step.loc.consecutive_closed]
    /\ idx' = [idx EXCEPT ![s] = @ + 1]
    /\ UNCHANGED <<config, pc, frames, call, matcher, result, response>>

\* count_blinks returns and check_liveness fuses the scores
SharedFuse(s) ==
    /\ pc[s] = "count_blinks"
    /\ idx[s] > Len(frames[s])
    /\ result' = [result EXCEPT ![s] =
                     check_liveness_fuse(checker[call[s].tracker], call[s].image,
                                         call[s].frames, blink_count[s])]
    /\ pc' = [pc EXCEPT ![s] = "done"]
    /\ UNCHANGED <<config, checker, frames, idx, blink_count, consecutive_closed,
                   call, matcher, response>>

\* check_liveness without frames: the passive-only branch
SharedPassive(s) ==
    /\ pc[s] = "passive"
    /\ result' = [result EXCEPT ![s] =
                     check_liveness(checker[call[s].tracker], call[s].image,
                                    call[s].frames)]
    /\ pc' = [pc EXCEPT ![s] = "done"]
    /\ UNCHANGED <<config, checker, frames, idx, blink_count, consecutive_closed,
                   call, matcher, response>>

\* the session runs match_faces on the module level face_matcher
SharedMatchFaces(s) ==
    /\ pc[s] = "idle"
    /\ \E face1 \in SharedCrops, face2 \in SharedCrops, method \in {"dlib", "opencv"} :
          /\ call' = [call EXCEPT ![s] = [op |-> "match_faces", face1 |-> face1,
                                          face2 |-> face2, method |-> method]]
          /\ result' = [result EXCEPT ![s] = match_faces(matcher, face1, face2, method)]
          /\ matcher' = match_faces_self(matcher, face1, face2, method)
    /\ pc' = [pc EXCEPT ![s] = "done"]
    /\ UNCHANGED <<config, checker, frames, idx, blink_count, consecutive_closed,
                   response>>

\* the session has its answer and may start again
SharedReturn(s) ==
    /\ pc[s] = "done"
    /\ pc' = [pc EXCEPT ![s] = "idle"]
    /\ call' = [call EXCEPT ![s] = NoResult]
    /\ result' = [result EXCEPT ![s] = NoResult]
    /\ frames' = [frames EXCEPT ![s] = <<>>]
    /\ idx' = [idx EXCEPT ![s] = 1]
    /\ blink_count' = [blink_count EXCEPT ![s] = 0]
    /\ consecutive_closed' = [consecutive_closed EXCEPT ![s] = 0]
    /\ UNCHANGED <<config, checker, matcher, response>>

NextShared ==
    \E s \in Sessions :
        \/ SharedStart(s)
        \/ SharedCountBlinksIter(s)
        \/ SharedFuse(s)
        \/ SharedPassive(s)
        \/ SharedMatchFaces(s)
        \/ SharedReturn(s)

SpecShared == InitShared /\ [][NextShared]_vars

(***************************************************************************)
(* Claims about count_blinks (checked under SpecBlinks)                    *)
(***************************************************************************)
\* the frames the for loop has consumed so far
Consumed == SubSeq(frames, 1, idx - 1)

\* a closed frame: a face whose average EAR is strictly below 0.25
IsClosed(f) == f.face /\ (f.left_ear + f.right_ear) < 50

\* maximal runs of closed frames of length >= 3 that are followed by a frame
\* that is not closed, identified by the position of that following frame
CompletedRuns(fs) ==
    {j \in 1..Len(fs) :
        /\ ~IsClosed(fs[j])
        /\ \E s \in 1..(j - 1) :
              /\ j - s >= 3
              /\ \A k \in s..(j - 1) : IsClosed(fs[k])
              /\ (s = 1 \/ ~IsClosed(fs[s - 1]))}

\* length of the closed run that ends at the last frame of fs
RECURSIVE TrailingClosed(_)
TrailingClosed(fs) ==
    IF fs = <<>> \/ ~IsClosed(fs[Len(fs)]) THEN 0
    ELSE 1 + TrailingClosed(SubSeq(fs, 1, Len(fs) - 1))

C2_Step ==
    (pc = "count_blinks" /\ idx <= Len(frames) /\ checker.predictor # None) =>
        /\ consecutive_closed = TrailingClosed(Consumed)
        /\ IsClosed(frames[idx]) =>
              /\ blink_count' = blink_count
              /\ consecutive_closed' = consecutive_closed + 1
        /\ ~IsClosed(frames[idx]) =>
              /\ consecutive_closed' = 0
              /\ blink_count' = blink_count
                     + (IF TrailingClosed(Consumed) >= 3 THEN 1 ELSE 0)

C2_OneBlinkPerRunNoResidue == [][C2_Step]_vars

\* C2 witness: three runs of two closed frames separated by frames that are
\* not closed were consumed and no blink was counted
C2_Witness ==
    /\ pc = "count_blinks"
    /\ checker.predictor # None
    /\ idx = 9
    /\ frames = <<ClosedFrame, ClosedFrame, EdgeFrame, ClosedFrame, ClosedFrame,
                  NoFaceFrame, ClosedFrame, ClosedFrame>> \o
                SubSeq(frames, 9, Len(frames))
    /\ blink_count = 0
    /\ consecutive_closed = 2

(***************************************************************************)
(* Claims about check_liveness (checked under Spec)                        *)
(***************************************************************************)
LivenessOps == {"check_liveness", "api.capture_liveness", "app.verify_liveness"}
LivenessDone == pc = "done" /\ call.op \in LivenessOps

\* no frame sequence, an empty one, or one of exactly one frame
SingleFrameInput == call.frames = Absent \/ Len(call.frames[1]) <= 1

\* C3: with no frame sequence, an empty sequence or a single frame the fused
\* score is the passive confidence, passed is the passive is_live flag,
\* blink_count is 0 and head_movement_detected is false.
C3_SingleFrameMode ==
    (LivenessDone /\ SingleFrameInput) =>
        /\ result.liveness_score = result.passive_liveness.confidence
        /\ result.passed = result.passive_liveness.is_live
        /\ result.blink_count = 0
        /\ result.head_movement_detected = FALSE

\* C3 witness: a sequence of exactly one frame was supplied; the check passed
\* on is_live although the score is below 50
C3_Witness ==
    /\ LivenessDone
    /\ call.frames # Absent
    /\ Len(call.frames[1]) = 1
    /\ result.passed
    /\ result.liveness_score < 50 * Unit
    /\ result.liveness_score > 0

\* C4: with two or more frames, blinkScore = min(100, blinkCount /
\* BLINK_THRESHOLD * 50), movementScore = 50 if movement was detected else 0,
\* fusedScore = (blinkScore + movementScore + passiveScore) / 3 and passed is
\* true exactly when fusedScore > 50; the reported blink_count and
\* head_movement_detected are the values the formula used.
C4_MultiFrameFusion ==
    (LivenessDone /\ ~SingleFrameInput) =>
        LET blinkScoreTimesThreshold ==
                Min(100 * Unit * BLINK_THRESHOLD, result.blink_count * 50 * Unit)
            movementScore == IF result.head_movement_detected THEN 50 * Unit ELSE 0
            passiveScore == result.passive_liveness.confidence
        IN  /\ 3 * BLINK_THRESHOLD * result.liveness_score =
                   blinkScoreTimesThreshold
                   + BLINK_THRESHOLD * (movementScore + passiveScore)
            /\ result.passed <=> (result.liveness_score > 50 * Unit)
            /\ checker.predictor # None =>
                   result.blink_count = Cardinality(CompletedRuns(call.frames[1]))

\* C4 witness: two blinks, no movement and a passive confidence of 100 fuse to
\* exactly 50, which fails
C4_Witness ==
    /\ LivenessDone
    /\ ~SingleFrameInput
    /\ result.blink_count = 2
    /\ ~result.head_movement_detected
    /\ result.passive_liveness.confidence = 100 * Unit
    /\ result.liveness_score = 50 * Unit
    /\ ~result.passed

\* C10 (as claimed): when no face is found in the primary image the check
\* fails (passed is false) and the quality metrics still reach the caller.
C10_NoFaceFailsFast ==
    (LivenessDone /\ ~call.image.face) =>
        /\ ~result.passed
        /\ call.op # "check_liveness" =>
               (response.success /\ response.quality_checks = result.quality_checks)

(***************************************************************************)
(* Claims about the matcher (checked under SpecMatch)                      *)
(***************************************************************************)
MatchOps == {"match_faces", "api.match_faces", "app.match_faces"}
MatchDone == pc = "done" /\ call.op \in MatchOps

BothEmbeddable == call.face1.encodings # <<>> /\ call.face2.encodings # <<>>

\* distance between the first embedding of each image
FirstDistance == Abs(call.face1.encodings[1] - call.face2.encodings[1])

\* C5: embedding method, both images embeddable: similarity_score is
\* 1 - distance, confidence is similarity_score * 100, and match holds
\* exactly when distance <= the distance threshold (inclusive), the distance
\* being taken between the first embedding of each image.
C5_EmbeddingMethod ==
    (MatchDone /\ call.method # "opencv" /\ BothEmbeddable) =>
        /\ result.success
        /\ result.distance = FirstDistance
        /\ result.similarity_score = 1000 - FirstDistance
        /\ result.confidence = 100 * result.similarity_score
        /\ result.match <=> (FirstDistance <= config.FACE_DISTANCE_THRESHOLD)

\* C5 witness: a distance exactly at the distance threshold is a match, taken
\* from the first of two embeddings
C5_Witness ==
    /\ MatchDone
    /\ call.method # "opencv"
    /\ BothEmbeddable
    /\ Len(call.face1.encodings) = 2
    /\ FirstDistance = config.FACE_DISTANCE_THRESHOLD
    /\ result.match

\* C6: structural method: similarity_score is (histogram correlation + ssim)
\* / 2, confidence is similarity_score * 100, and match holds exactly when
\* the combined score is strictly greater than the matcher's threshold.
C6_StructuralMethod ==
    (MatchDone /\ call.method = "opencv") =>
        /\ result.success
        /\ result.hist_similarity =
               compareHist(calcHist(call.face1.pixels), calcHist(call.face2.pixels))
        /\ result.ssim_score = _calculate_ssim(call.face1.pixels, call.face2.pixels)
        /\ 2 * result.similarity_score = result.hist_similarity + result.ssim_score
        /\ result.confidence = 100 * result.similarity_score
        /\ result.match <=> (result.similarity_score > matcher.threshold)

\* C6 witness: a combined score equal to the threshold is a no-match
C6_Witness ==
    /\ MatchDone
    /\ call.method = "opencv"
    /\ result.similarity_score = matcher.threshold
    /\ ~result.match

\* C7: for fixed scores a no-match stays a no-match at every stricter
\* threshold: a higher similarity threshold for the structural method, a
\* lower distance tolerance for the embedding method.
AllThresholds == {50 * k : k \in 0..20}

ThresholdCompared ==
    IF result.method = "opencv" THEN matcher.threshold ELSE matcher.distance_threshold

\* C8 (as claimed): the threshold reported with a match decision is the
\* threshold the decision compared against.
C8_ReportedThresholdIsUsed ==
    (MatchDone /\ call.op # "match_faces" /\ response.success) =>
        response.threshold_used = ThresholdCompared

\* C9 (as claimed): a threshold supplied at construction, 0.0 included, is
\* the value the decision compares against, whichever method runs.
C9_SuppliedThresholdDecides ==
    (MatchDone /\ result.success /\ call.threshold # Absent) =>
        LET t == call.threshold[1]
        IN  /\ ThresholdCompared = t
            /\ IF result.method = "opencv"
               THEN result.match <=> (result.similarity_score > t)
               ELSE result.match <=> (result.distance <= t)

\* C11: embedding method, one of the images without an embedding: the
\* comparison returns a value with success false and an error message and
\* nothing else (no match flag, no distance, no similarity score).
C11_NoEmbeddingIsExplicitFailure ==
    (MatchDone /\ call.method # "opencv" /\ ~BothEmbeddable) =>
        /\ result.success = FALSE
        /\ DOMAIN result = {"success", "error"}
        /\ result.error = "Could not detect face in one or both images"

\* C11 witness: the first image has an embedding, the second has none, and
\* the failure value was returned
C11_Witness ==
    /\ MatchDone
    /\ call.method # "opencv"
    /\ call.face1.encodings # <<>>
    /\ call.face2.encodings = <<>>
    /\ ~result.success

\* C12 (as claimed): when an image yields no embedding, match_faces falls back
\* to the structural method and returns a successful structural result.
C12_FallbackToStructural ==
    (MatchDone /\ call.method # "opencv" /\ ~BothEmbeddable) =>
        (result.success /\ result.method = "opencv")

\* C13 (as claimed): a failure of check_liveness, here on an image without
\* pixels, comes back as a value with success false and a message; no
\* exception leaves the operation.
C13_FailuresAreValues ==
    (pc \in {"done", "raised"} /\ call.op = "check_liveness" /\ call.image.empty) =>
        /\ pc = "done"
        /\ ~IsRaised(result)
        /\ "success" \in DOMAIN result
        /\ result.success = FALSE
        /\ "error" \in DOMAIN result

\* C14 (as claimed): a frame in which no face is found is no event for the
\* blink tracker: it leaves the run counter, the blink count and the sample
\* window as they were.
C14_NoFaceStep ==
    (/\ pc = "count_blinks" /\ idx <= Len(frames)
     /\ checker.predictor # None /\ ~frames[idx].face) =>
        /\ consecutive_closed' = consecutive_closed
        /\ blink_count' = blink_count
        /\ checker'.blink_history = checker.blink_history

C14_NoFaceFrameIsNoEvent == [][C14_NoFaceStep]_vars

\* frames with a detectable face among the frames consumed so far
FaceFramesConsumed == Len(SelectSeq(Consumed, LAMBDA f : f.face))

\* C15 (as claimed): after n frames with a detectable face the sample window
\* holds exactly min(n, 100) samples.
C15_WindowHoldsRecentSamples ==
    (pc \in {"count_blinks", "returned"} /\ checker.predictor # None) =>
        Len(checker.blink_history) = Min(FaceFramesConsumed, 100)

\* the frames of fs in which a face is detected
WithFace(fs) == SelectSeq(fs, LAMBDA f : f.face)

\* the variance of the values v[1..n] is strictly greater than 100, stated
\* with the deviations from the mean: sum (n v[i] - sum v)^2 > 100 n^3
RECURSIVE SumOver(_, _)
SumOver(v, i) == IF i = 0 THEN 0 ELSE v[i] + SumOver(v, i - 1)

VarianceAbove100(v) ==
    LET n == Len(v)
        total == SumOver(v, n)
        dev2 == [i \in 1..n |-> (n * v[i] - total) * (n * v[i] - total)]
    IN  SumOver(dev2, n) > 100 * n * n * n

HeadMoved(fs) ==
    LET found == WithFace(fs)
    IN  /\ Len(found) >= 5
        /\ \/ VarianceAbove100([i \in 1..Len(found) |-> found[i].cx])
           \/ VarianceAbove100([i \in 1..Len(found) |-> found[i].cy])

\* C16: check_head_movement is true exactly when at least 5 of the frames
\* contain a face and the variance of the face centre x or y over those
\* frames is strictly greater than 100; otherwise it returns false (a value,
\* never an exception), and check_liveness reports the same outcome.
C16_HeadMovement ==
    /\ (pc = "done" /\ call.op = "check_head_movement") =>
          (result.value <=> HeadMoved(call.frames[1]))
    /\ (LivenessDone /\ ~SingleFrameInput) =>
          (result.head_movement_detected <=> HeadMoved(call.frames[1]))

\* C16 witness: five frames with a face and one without; the x variance is
\* above 100 and movement is reported
C16_Witness ==
    /\ pc = "done"
    /\ call.op = "check_head_movement"
    /\ Len(call.frames[1]) = 6
    /\ Len(WithFace(call.frames[1])) = 5
    /\ result.value

\* C17: is_live is true exactly when texture score > 50 and colour variance
\* > 100 and high-frequency score > 10, all strict; one cue at its cut-off
\* makes it false however high the confidence is.
C17_PassiveConjunctive ==
    LivenessDone =>
        (result.passive_liveness.is_live <=>
            (/\ call.image.laplacian_var > 50
             /\ call.image.color_variance > 100
             /\ call.image.high_freq > 10))

\* C17 witness: only the texture score sits at its cut-off, the confidence is
\* 100 and is_live is false
C17_Witness ==
    /\ LivenessDone
    /\ call.image.laplacian_var = 50
    /\ call.image.color_variance > 100
    /\ call.image.high_freq > 10
    /\ result.passive_liveness.confidence = 100 * Unit
    /\ ~result.passive_liveness.is_live

\* (texture/100 + colourVariance/1000 + highFreq/100) * 33.3, times Unit
RawConfidence(image) ==
    (10 * image.laplacian_var + image.color_variance + 10 * image.high_freq)
        * 333 * (Unit \div 10000)

\* C18: in every result of check_liveness the passive confidence and the
\* fused score lie between 0 and 100, the confidence being the raw value
\* capped at 100.
C18_ScoresInRange ==
    LivenessDone =>
        /\ result.passive_liveness.confidence >= 0
        /\ result.passive_liveness.confidence <= 100 * Unit
        /\ call.image.high_freq # NaN =>
               result.passive_liveness.confidence =
                   Min(100 * Unit, RawConfidence(call.image))
        /\ result.liveness_score >= 0
        /\ result.liveness_score <= 100 * Unit

\* C18 witness: a raw confidence above 100 was capped, in multi-frame mode
\* with two blinks and head movement, where the fused score is 200/3
C18_Witness ==
    /\ LivenessDone
    /\ ~SingleFrameInput
    /\ RawConfidence(call.image) > 100 * Unit
    /\ result.passive_liveness.confidence = 100 * Unit
    /\ result.blink_count = 2
    /\ result.liveness_score = (200 * Unit) \div 3
    /\ result.head_movement_detected

\* an image whose pixels all have the same value
Uniform(image) ==
    ~image.empty /\ image.laplacian_var = 0 /\ image.color_variance = 0

\* C20: single-frame check_liveness on an all-uniform image returns passed =
\* false.
C20_UniformImageFails ==
    (LivenessDone /\ SingleFrameInput /\ Uniform(call.image)) => ~result.passed

\* C20 witness: a uniform image whose spectrum is all in the constant term,
\* so that the confidence is 100, failed in single-frame mode
C20_Witness ==
    /\ LivenessDone
    /\ SingleFrameInput
    /\ Uniform(call.image)
    /\ result.liveness_score = 100 * Unit
    /\ ~result.passed

\* C19: every successful result of match_faces, from either method, has
\* similarity_score in [0, 1] and confidence in [0, 100], embedding distances
\* above 1 and negative histogram correlations or SSIM values included.
C19_MatchScoresInRange ==
    (MatchDone /\ result.success) =>
        /\ result.similarity_score >= 0
        /\ result.similarity_score <= 1000
        /\ result.confidence >= 0
        /\ result.confidence <= 100000

(***************************************************************************)
(* Claims about the pure functions (checked under SpecPure)                *)
(***************************************************************************)
\* C21: the structural comparison is symmetric: compare_faces_opencv(A, B)
\* and compare_faces_opencv(B, A) return the same combined score, histogram
\* similarity, SSIM score and match decision.
C21_StructuralSymmetric ==
    (pc = "done" /\ call.op = "compare_faces_opencv") =>
        LET swapped == compare_faces_opencv(matcher, call.face2, call.face1)
        IN  /\ result.similarity_score = swapped.similarity_score
            /\ result.hist_similarity = swapped.hist_similarity
            /\ result.ssim_score = swapped.ssim_score
            /\ result.match = swapped.match

\* C21 witness: two crops with different histograms and different local
\* variances were compared and matched
C21_Witness ==
    /\ pc = "done"
    /\ call.op = "compare_faces_opencv"
    /\ calcHist(call.face1.pixels) # calcHist(call.face2.pixels)
    /\ result.hist_similarity < 1000
    /\ result.ssim_score < 1000
    /\ result.match

\* C22 (as claimed): create_comparison_image never raises for a pair of
\* non-empty crops, whatever their sizes and channel counts, and the returned
\* image has height exactly 300.
C22_ComparisonNeverRaises ==
    (pc \in {"done", "raised"} /\ call.op = "create_comparison_image") =>
        /\ ~IsRaised(result)
        /\ result.h = 300

(***************************************************************************)
(* Claims about sessions in flight at once (checked under SpecShared)      *)
(***************************************************************************)
InFlight(s) == pc[s] # "idle" /\ call[s].op \in Kinds

\* C23 (as claimed): no tracker instance is shared between concurrent
\* sessions: two sessions in flight never use the same LivenessChecker.
C23_NoSharedTracker ==
    \A s \in Sessions, t \in Sessions :
        (s # t /\ InFlight(s) /\ InFlight(t)) => call[s].tracker # call[t].tracker

\* the instance the session would get from LivenessChecker() on its own
FreshChecker(s) == LivenessChecker(checker[call[s].tracker].predictor)

\* C30: a check_liveness call interleaved with other sessions' calls on the
\* shared instance returns the blink count and the fused score it would
\* return alone on a fresh instance.
C30_InterleavingIsInvisible ==
    \A s \in Sessions :
        (pc[s] = "done" /\ call[s].op = "check_liveness") =>
            LET alone == check_liveness(FreshChecker(s), call[s].image, call[s].frames)
            IN  /\ result[s].blink_count = alone.blink_count
                /\ result[s].blink_count = count_blinks(FreshChecker(s), call[s].frames[1])
                /\ result[s].liveness_score = alone.liveness_score
                /\ result[s].passed = alone.passed

\* C30 witness: session 1 finished with one blink on the shared instance
\* while session 2, on the same instance, stands inside a run of closed
\* frames
C30_Witness ==
    /\ pc[1] = "done"
    /\ call[1].op = "check_liveness"
    /\ call[1].tracker = ApiTracker
    /\ result[1].blink_count = 1
    /\ pc[2] = "count_blinks"
    /\ call[2].tracker = ApiTracker
    /\ consecutive_closed[2] = 2
    /\ idx[2] <= Len(frames[2])

\* C24: check_liveness and match_faces are idempotent: the same inputs on
\* the same instance give the same result again, and no call changes a
\* field of the checker (blink_counter, frame_counter, blink_history) or of
\* the matcher (threshold, distance_threshold).
C24_Idempotent ==
    /\ \A t \in DOMAIN checker : checker[t] = LivenessChecker("loaded")
    /\ matcher = FaceMatcher(config, Absent)
    /\ \A s \in Sessions, t \in Sessions :
          (pc[s] = "done" /\ pc[t] = "done" /\ call[s] = call[t]) =>
              result[s] = result[t]

\* C24 witness: the same frames went twice through the shared checker, each
\* time with one blink, and the same crops twice through the shared matcher
C24_Witness ==
    \E s \in Sessions, t \in Sessions :
        /\ s # t
        /\ pc[s] = "done"
        /\ pc[t] = "done"
        /\ call[s] = call[t]
        /\ \/ call[s].op = "check_liveness" /\ result[s].blink_count = 1
           \/ /\ call[s].op = "match_faces"
              /\ call[s].method = "opencv"
              /\ call[s].face1 # call[s].face2
              /\ result[s].similarity_score = matcher.threshold

\* the squared distance of two points
Dist2(p, q) == (p[1] - q[1]) * (p[1] - q[1]) + (p[2] - q[2]) * (p[2] - q[2])

\* C25: eye_aspect_ratio is (|p1-p5| + |p2-p4|) / (2 * |p0-p3|) over the six
\* eye points, and scaling all coordinates by a constant k > 0 leaves the
\* ratio unchanged, whenever p0 # p3.
C25_EarScaleInvariant ==
    (pc = "done" /\ call.op = "eye_aspect_ratio") =>
        LET p == call.eye_points
        IN  \E a \in 0..20, b \in 0..20, c \in 1..20 :
                /\ a * a = Dist2(p[2], p[6])
                /\ b * b = Dist2(p[3], p[5])
                /\ c * c = Dist2(p[1], p[4])
                /\ 2 * c * result.value <= 100 * (a + b)
                /\ 100 * (a + b) < 2 * c * (result.value + 1)
                /\ \A k \in Scales :
                      eye_aspect_ratio(checker, Scaled(p, k)) = result.value

\* C25 witness: a tilted eye with two lid distances of different lengths and
\* a ratio that is not a whole number of hundredths before rounding
C25_Witness ==
    /\ pc = "done"
    /\ call.op = "eye_aspect_ratio"
    /\ Dist2(call.eye_points[1], call.eye_points[4]) = 169
    /\ Dist2(call.eye_points[2], call.eye_points[6]) = 25
    /\ Dist2(call.eye_points[3], call.eye_points[5]) = 9
    /\ result.value = 30

\* the image with another brightness and contrast, its passive cues kept
QualityVariants(image) ==
    {[image EXCEPT !.gray_mean = m, !.gray_std = c] : m \in {50, 51}, c \in {30, 31}}

\* C26: is_bright_enough is brightness > 50, is_sharp_enough is blur_score >
\* 100, has_good_contrast is contrast > 30, each from its own metric; the
\* flags are advisory: with the passive cues, the blink count and the
\* movement outcome fixed, no flag value changes the liveness score or the
\* passed decision of check_liveness.
C26_QualityFlagsAdvisory ==
    LivenessDone =>
        /\ result.quality_checks.is_bright_enough <=> (call.image.gray_mean > 50)
        /\ result.quality_checks.is_sharp_enough <=> (call.image.laplacian_var > 100)
        /\ result.quality_checks.has_good_contrast <=> (call.image.gray_std > 30)
        /\ \A other \in QualityVariants(call.image) :
              LET again == check_liveness(checker, other, call.frames)
              IN  /\ again.liveness_score = result.liveness_score
                  /\ again.passed = result.passed
                  /\ again.blink_count = result.blink_count
                  /\ again.head_movement_detected = result.head_movement_detected

\* C26 witness: brightness exactly at its cut-off, so its flag is false while
\* a brighter variant has it true, and check_liveness passes
C26_Witness ==
    /\ LivenessDone
    /\ call.image.gray_mean = 50
    /\ ~result.quality_checks.is_bright_enough
    /\ result.quality_checks.has_good_contrast
    /\ result.passed
    /\ \E other \in QualityVariants(call.image) :
          check_image_quality(other).is_bright_enough

\* C27: match_faces runs the embedding method by default and for every
\* method other than "opencv", an unknown name included, the structural
\* method only for "opencv", and the method field of a successful result
\* names the method that produced the decision.
C27_MethodDispatch ==
    MatchDone =>
        /\ call.method = "opencv" =>
              /\ result = compare_faces_opencv(matcher, call.face1, call.face2)
              /\ result.method = "opencv"
              /\ result.match <=> (result.similarity_score > matcher.threshold)
        /\ call.method # "opencv" =>
              /\ result = compare_faces_dlib(matcher, call.face1, call.face2)
              /\ result.success =>
                    /\ result.method = "dlib"
                    /\ result.match <=> (result.distance <= matcher.distance_threshold)

\* C27 witness: the unknown method name "deepface" was answered by the
\* embedding method, on crops the structural method would have decided
\* the other way
C27_Witness ==
    /\ MatchDone
    /\ call.op = "match_faces"
    /\ call.method = "deepface"
    /\ result.success
    /\ result.method = "dlib"
    /\ result.match
    /\ ~compare_faces_opencv(matcher, call.face1, call.face2).match

\* C28: in multi-frame mode with BLINK_THRESHOLD = 2, zero counted blinks
\* never pass (the fused score is at most (0 + 50 + 100) / 3 = 50, not
\* strictly above 50), a passive confidence of 0 never passes, and the fused
\* score never exceeds 250/3.
C28_ZeroBlinksNeverPass ==
    (LivenessDone /\ ~SingleFrameInput) =>
        /\ result.blink_count = 0 =>
              (result.liveness_score <= 50 * Unit /\ ~result.passed)
        /\ result.passive_liveness.confidence = 0 => ~result.passed
        /\ 3 * result.liveness_score <= 150 * Unit + result.passive_liveness.confidence
        /\ 3 * result.liveness_score <= 250 * Unit

\* C28 witness: no blink, head movement and a passive confidence of 100 fuse
\* to exactly 50 and fail
C28_Witness ==
    /\ LivenessDone
    /\ ~SingleFrameInput
    /\ checker.predictor # None
    /\ result.blink_count = 0
    /\ result.head_movement_detected
    /\ result.passive_liveness.confidence = 100 * Unit
    /\ result.passive_liveness.is_live
    /\ result.liveness_score = 50 * Unit
    /\ ~result.passed

\* C29: when the landmark predictor could not be loaded (predictor is None)
\* detect_blink reports every frame as not closed with EAR 0.0, count_blinks
\* returns 0 for every frame sequence, and multi-frame check_liveness
\* completes without error with a blink score of 0.
C29_NoPredictorNoBlinks ==
    (/\ pc \in {"done", "raised"}
     /\ call.op = "check_liveness"
     /\ checker.predictor = None
     /\ call.frames # Absent) =>
        LET fs == call.frames[1]
        IN  /\ \A i \in 1..Len(fs) :
                  detect_blink(checker, fs[i]) = [is_blink |-> FALSE, avg_ear2 |-> 0]
            /\ count_blinks(checker, fs) = 0
            /\ (Len(fs) > 1 /\ ~call.image.empty) =>
                  /\ pc = "done"
                  /\ result.blink_count = 0
                  /\ 3 * result.liveness_score =
                         (IF result.head_movement_detected THEN 50 * Unit ELSE 0)
                         + result.passive_liveness.confidence

\* C29 witness: without a predictor, frames that hold two complete runs of
\* closed eyes and a moved face give no blink, head movement and a score of 50
C29_Witness ==
    /\ pc = "done"
    /\ call.op = "check_liveness"
    /\ checker.predictor = None
    /\ call.frames # Absent
    /\ Cardinality(CompletedRuns(call.frames[1])) = 2
    /\ result.blink_count = 0
    /\ result.head_movement_detected
    /\ result.liveness_score = 50 * Unit

====
